---- MODULE Spec2Model ----
(***************************************************************************)
(* KaraokeVerse: the application flow state machine (AppFlowController)    *)
(* with the objects it drives: UISystem panel registry, LoadingIndicator,  *)
(* ErrorDisplay, ProfileInputPanel, SongSearchPanel, VirtualKeyboard,      *)
(* ProfileService, SceneManager and VideoScreen.                           *)
(*                                                                         *)
(* Every handler of the source is an operator from a state record to a     *)
(* state record, so that a handler's statements compose in program order.  *)
(* An async handler is cut at its awaits: the part up to the await is one  *)
(* operator, each continuation another.  A request that is awaited sits in *)
(* `pending` (fetches, timers: they settle in a later macrotask) or in     *)
(* `microtask` (a promise that is already settled when it is awaited: its  *)
(* continuation runs before any other event).                              *)
(***************************************************************************)
EXTENDS Naturals, Integers, Sequences, FiniteSets, Bags, TLC

(***************************************************************************)
(* Program constants                                                       *)
(***************************************************************************)
NAME_MIN_LENGTH == 3
NAME_MAX_LENGTH == 20
ProfileKeyboardMaxLength == 20
SearchKeyboardMaxLength == 50
DefaultKeyboardMaxLength == 50
maxVisibleSongs == 6
AllRoomThemes == <<"anime", "kpop", "bollywood", "hollywood", "taylor-swift">>
AppState == {"initializing", "profile-input", "room-selection", "loading-room",
             "in-room", "song-search", "playing-song", "error"}
\* UISystem.panels in insertion order (the order the panels are constructed in)
PanelOrder == <<"profile-input", "room-selection", "song-search", "keyboard">>
UIPanelType == {PanelOrder[i] : i \in 1..Len(PanelOrder)}

(***************************************************************************)
(* Bounds of the model                                                     *)
(***************************************************************************)
MaxPending == 2    \* requests and timers in flight at once
MaxTyped == 3      \* characters typed into the name field
MaxQuery == 1      \* characters typed into the search field
MaxPad == 1        \* blanks on either side of a name handed to the profile panel
MaxCore == 21      \* characters between the blanks of such a name
NumThemes == 2     \* room themes the user picks from
NumIds == 1        \* identifiers the profile store hands out

RoomTheme == {AllRoomThemes[i] : i \in 1..NumThemes}
AllProfileIds == <<"p1", "p2", "p3">>
ProfileIds == {AllProfileIds[i] : i \in 1..NumIds}

(***************************************************************************)
(* Values                                                                  *)
(***************************************************************************)
None == "none"
NoText == <<>>
NoId == "none"

\* a retry thunk: the operation it re-runs with the arguments it captured
Thunk(op, text, key) == [op |-> op, text |-> text, key |-> key]
NoAction == Thunk(None, NoText, None)

\* an awaited request: what was asked, and the handler that awaits it
Req(kind, text, key, awaiter) ==
    [kind |-> kind, text |-> text, key |-> key, awaiter |-> awaiter]
NoTask == Req(None, NoText, None, None)

\* one entry of the trace of calls made by the handler step that ran last
Ev(call, key, text) == [call |-> call, key |-> key, text |-> text]

Player(id, displayName) == [id |-> id, displayName |-> displayName]
NoPlayer == Player(NoId, NoText)

\* the Song Catalog: immutable rows {id, youtubeId}
Song(id, youtubeId) == [id |-> id, youtubeId |-> youtubeId]
SongA == Song("1", "ytA")
SongB == Song("2", "ytB")
SongResponses == {<<SongA, SongB>>}

\* a UIButton: its id, its mesh (the identity of the button object) and what
\* its onClick closure calls, with the argument the closure holds
Button(id, mesh, op, arg) == [id |-> id, mesh |-> mesh, op |-> op, arg |-> arg]
NoButton == Button(None, None, None, None)

\* `room-${theme}` of createRoomButton
RoomButtonId ==
    [theme \in {AllRoomThemes[i] : i \in 1..Len(AllRoomThemes)} |->
        CASE theme = "anime" -> "room-anime"
          [] theme = "kpop" -> "room-kpop"
          [] theme = "bollywood" -> "room-bollywood"
          [] theme = "hollywood" -> "room-hollywood"
          [] theme = "taylor-swift" -> "room-taylor-swift"]

\* the buttons the panels add to their panel when they are constructed; of the
\* room buttons those of RoomTheme, of the keys of the keyboard the Done key
ConstructedButtons ==
    [type \in UIPanelType |->
        CASE type = "profile-input" ->
               <<Button("name-input", "name-input", "openKeyboard", "profile"),
                 Button("submit-name", "submit-name", "handleSubmit", None)>>
          [] type = "room-selection" ->
               [i \in 1..NumThemes |->
                   Button(RoomButtonId[AllRoomThemes[i]], RoomButtonId[AllRoomThemes[i]],
                          "handleRoomSelect", AllRoomThemes[i])]
          [] type = "song-search" ->
               <<Button("search-input", "search-input", "openKeyboard", "song-search"),
                 Button("stop", "stop", "handleStopSong", None),
                 Button("back", "back", "handleBackToRoomSelection", None)>>
          [] type = "keyboard" ->
               <<Button("key-Done", "key-Done", "handleKeyPress", "Done")>>]

\* the XR input sources there can be; InputSources are those of a session with
\* NumSources controllers, in the order of xrSession.inputSources
Controllers == <<"left", "right", "third">>
NumSources == 1    \* controllers of a session
InputSources == SubSeq(Controllers, 1, NumSources)
Sources == {Controllers[i] : i \in 1..Len(Controllers)}

\* a MicrophoneEntity as constructed: not grabbed, at its spawn position; a
\* position is "spawn" or the controller the microphone was last moved to
MicrophoneEntity == [isGrabbed |-> FALSE, grabbingController |-> None, position |-> "spawn"]

VideoScreen(videoId) == [exists |-> TRUE, currentVideoId |-> videoId]
NoVideoScreen == [exists |-> FALSE, currentVideoId |-> None]

Rep(c, n) == [i \in 1..n |-> c]
Min(a, b) == IF a < b THEN a ELSE b

VARIABLES
    currentState,            \* AppFlowController.currentState
    currentKeyboardTarget,   \* AppFlowController.currentKeyboardTarget
    lastFailedAction,        \* AppFlowController.lastFailedAction
    panels,                  \* UISystem.panels: type -> isVisible
    activePanel,             \* UISystem.activePanel
    loadingVisible,          \* LoadingIndicator.isVisible
    errorVisible,            \* ErrorDisplay.isVisible
    displayName,             \* ProfileInputPanel.displayName
    errorMessage,            \* ProfileInputPanel.errorMessage
    currentText,             \* VirtualKeyboard.currentText
    maxLength,               \* VirtualKeyboard.maxLength
    songs,                   \* SongSearchPanel.songs
    songButtons,             \* song buttons in the song-search panel's buttons
    panelTheme,              \* SongSearchPanel.currentTheme
    cachedProfile,           \* ProfileService.cachedProfile
    storedProfileId,         \* localStorage[PROFILE_STORAGE_KEY]
    currentRoom,             \* SceneManager.currentRoom (its theme)
    currentMicrophone,       \* SceneManager.currentMicrophone is set
    currentVideoScreen,      \* SceneManager.currentVideoScreen
    hasStartedFlow,          \* KaraokeVerseSystem.hasStartedFlow
    pending,                 \* bag of requests and timers in flight
    microtask,               \* continuation queued behind a settled promise
    buttons,                 \* UISystem.panels: type -> buttons, in the order added
    hoveredButton,           \* UISystem.hoveredButton
    isHovered,               \* meshes of the buttons whose isHovered is set
    isActive,                \* meshes of the buttons whose isActive is set
    triggerStates,           \* UIController.triggerStates
    xrSession,               \* world.xrSession (with its frame and reference space) is set
    gamepad,                 \* source.gamepad.buttons[0].pressed of each input source
    pressedLastFrame,        \* what gamepad was when update ran last
    inputSources,            \* xrSession.inputSources
    microphone,              \* the MicrophoneEntity of SceneManager.currentMicrophone
    AppFlowController_triggerStates,  \* AppFlowController.triggerStates
    calls                    \* trace of the calls of the last handler step

vars == <<currentState, currentKeyboardTarget, lastFailedAction, panels, activePanel,
          loadingVisible, errorVisible, displayName, errorMessage, currentText,
          maxLength, songs, songButtons, panelTheme, cachedProfile,
          storedProfileId, currentRoom, currentMicrophone, currentVideoScreen,
          hasStartedFlow, pending, microtask, buttons, hoveredButton, isHovered,
          isActive, triggerStates, xrSession, gamepad, pressedLastFrame, inputSources,
          microphone, AppFlowController_triggerStates, calls>>

\* the program state as one record, for the handlers to transform
Cur ==
    [currentState |-> currentState, currentKeyboardTarget |-> currentKeyboardTarget,
     lastFailedAction |-> lastFailedAction, panels |-> panels, activePanel |-> activePanel,
     loadingVisible |-> loadingVisible, errorVisible |-> errorVisible,
     displayName |-> displayName, errorMessage |-> errorMessage,
     currentText |-> currentText, maxLength |-> maxLength, songs |-> songs,
     songButtons |-> songButtons, panelTheme |-> panelTheme,
     cachedProfile |-> cachedProfile, storedProfileId |-> storedProfileId,
     currentRoom |-> currentRoom, currentMicrophone |-> currentMicrophone,
     currentVideoScreen |-> currentVideoScreen, hasStartedFlow |-> hasStartedFlow,
     pending |-> pending, microtask |-> microtask,
     buttons |-> buttons, hoveredButton |-> hoveredButton, isHovered |-> isHovered,
     isActive |-> isActive, triggerStates |-> triggerStates, xrSession |-> xrSession,
     gamepad |-> gamepad, pressedLastFrame |-> pressedLastFrame,
     inputSources |-> inputSources, microphone |-> microphone,
     AppFlowController_triggerStates |-> AppFlowController_triggerStates, calls |-> <<>>]

Becomes(s) ==
    /\ currentState' = s.currentState
    /\ currentKeyboardTarget' = s.currentKeyboardTarget
    /\ lastFailedAction' = s.lastFailedAction
    /\ panels' = s.panels
    /\ activePanel' = s.activePanel
    /\ loadingVisible' = s.loadingVisible
    /\ errorVisible' = s.errorVisible
    /\ displayName' = s.displayName
    /\ errorMessage' = s.errorMessage
    /\ currentText' = s.currentText
    /\ maxLength' = s.maxLength
    /\ songs' = s.songs
    /\ songButtons' = s.songButtons
    /\ panelTheme' = s.panelTheme
    /\ cachedProfile' = s.cachedProfile
    /\ storedProfileId' = s.storedProfileId
    /\ currentRoom' = s.currentRoom
    /\ currentMicrophone' = s.currentMicrophone
    /\ currentVideoScreen' = s.currentVideoScreen
    /\ hasStartedFlow' = s.hasStartedFlow
    /\ pending' = s.pending
    /\ microtask' = s.microtask
    /\ buttons' = s.buttons
    /\ hoveredButton' = s.hoveredButton
    /\ isHovered' = s.isHovered
    /\ isActive' = s.isActive
    /\ triggerStates' = s.triggerStates
    /\ xrSession' = s.xrSession
    /\ gamepad' = s.gamepad
    /\ pressedLastFrame' = s.pressedLastFrame
    /\ inputSources' = s.inputSources
    /\ microphone' = s.microphone
    /\ AppFlowController_triggerStates' = s.AppFlowController_triggerStates
    /\ calls' = s.calls

\* the state after construction (field initialisers and constructors)
Constructed(stored) ==
    [currentState |-> "initializing", currentKeyboardTarget |-> None,
     lastFailedAction |-> NoAction,
     panels |-> [t \in UIPanelType |-> FALSE], activePanel |-> None,
     loadingVisible |-> FALSE, errorVisible |-> FALSE,
     displayName |-> NoText, errorMessage |-> "",
     currentText |-> NoText, maxLength |-> DefaultKeyboardMaxLength,
     songs |-> <<>>, songButtons |-> {}, panelTheme |-> None,
     cachedProfile |-> NoPlayer, storedProfileId |-> stored,
     currentRoom |-> None, currentMicrophone |-> FALSE,
     currentVideoScreen |-> NoVideoScreen, hasStartedFlow |-> FALSE,
     pending |-> EmptyBag, microtask |-> NoTask,
     buttons |-> ConstructedButtons, hoveredButton |-> NoButton,
     isHovered |-> {}, isActive |-> {},
     triggerStates |-> [src \in Sources |-> FALSE], xrSession |-> FALSE,
     gamepad |-> [src \in Sources |-> FALSE],
     pressedLastFrame |-> [src \in Sources |-> FALSE],
     inputSources |-> <<>>, microphone |-> MicrophoneEntity,
     AppFlowController_triggerStates |-> [src \in Sources |-> FALSE], calls |-> <<>>]

Call(s, call, key, text) == [s EXCEPT !.calls = Append(@, Ev(call, key, text))]
Await(s, r) == [s EXCEPT !.pending = @ (+) SetToBag({r})]
Settle(s, r) == [s EXCEPT !.pending = @ (-) SetToBag({r})]

(***************************************************************************)
(* UISystem                                                                *)
(***************************************************************************)
showPanel(s, type) ==
    Call([s EXCEPT !.panels[type] = TRUE, !.activePanel = type], "showPanel", type, NoText)

\* hidePanel that flips the panel's visibility instead of clearing it
hidePanel_toggle(s, type) ==
    IF type \notin DOMAIN s.panels THEN s
    ELSE [s EXCEPT !.panels[type] = ~@,
                   !.activePanel = IF @ = type THEN None ELSE @]

\* panels.get(type) is undefined for an id no panel was created for
hidePanel(s, type) ==
    IF type \notin DOMAIN s.panels THEN s
    ELSE [s EXCEPT !.panels[type] = FALSE,
                   !.activePanel = IF @ = type THEN None ELSE @]

RECURSIVE hidePanelsFrom(_, _)
hidePanelsFrom(s, i) ==
    IF i > Len(PanelOrder) THEN s ELSE hidePanelsFrom(hidePanel(s, PanelOrder[i]), i + 1)

hideAllPanels(s) == Call(hidePanelsFrom(s, 1), "hideAllPanels", None, NoText)

hasVisiblePanel(s) == \E t \in UIPanelType : s.panels[t]

(***************************************************************************)
(* LoadingIndicator and ErrorDisplay                                       *)
(***************************************************************************)
showLoading(s, message) ==
    Call([s EXCEPT !.loadingVisible = TRUE], "loading.show", message, NoText)

hideLoading(s) ==
    Call([s EXCEPT !.loadingVisible = FALSE], "loading.hide", None, NoText)

ErrorDisplay_show(s, message) ==
    Call([s EXCEPT !.errorVisible = TRUE], "error.show", message, NoText)

ErrorDisplay_hide(s) ==
    Call([s EXCEPT !.errorVisible = FALSE], "error.hide", None, NoText)

(***************************************************************************)
(* AppFlowController: state, overlays, panels                              *)
(***************************************************************************)
setState(s, state) == [s EXCEPT !.currentState = state]

showError(s, message, retryAction) ==
    setState(ErrorDisplay_show([s EXCEPT !.lastFailedAction = retryAction], message),
             "error")

ProfileInputPanel_reset(s) == [s EXCEPT !.displayName = NoText, !.errorMessage = ""]

showProfileInput(s) ==
    showPanel(ProfileInputPanel_reset(hideAllPanels(setState(s, "profile-input"))),
              "profile-input")

showRoomSelection(s) ==
    showPanel(hideAllPanels(setState(s, "room-selection")), "room-selection")

(***************************************************************************)
(* SongSearchPanel                                                         *)
(***************************************************************************)
\* the first maxVisibleSongs songs get a button; addButtonToPanel appends it to
\* the panel's buttons, from which updateSongList removes nothing
updateSongList(s) ==
    LET visibleSongs == SubSeq(s.songs, 1, Min(Len(s.songs), maxVisibleSongs))
    IN  [s EXCEPT !.songButtons = @ \cup {visibleSongs[i] : i \in 1..Len(visibleSongs)}]

\* loadSongs up to its await: the fetch of /songs[?theme=] is in flight
loadSongs(s, theme, awaiter) ==
    Await(Call([s EXCEPT !.panelTheme = theme], "fetch.songs", theme, NoText),
          Req("loadSongs", NoText, theme, awaiter))

\* loadSongs after the fetch settled: a failure is caught inside loadSongs,
\* which empties the list and returns normally
loadSongs_settled(s, ok, list) ==
    updateSongList([s EXCEPT !.songs = IF ok THEN list ELSE <<>>])

\* the query is only drawn on the search field
setSearchQuery(s, query) == Call(s, "setSearchQuery", None, query)

(***************************************************************************)
(* SceneManager and VideoScreen                                            *)
(***************************************************************************)
unloadCurrentRoom(s) ==
    IF s.currentRoom = None THEN s
    ELSE [s EXCEPT !.currentMicrophone = FALSE, !.microphone = MicrophoneEntity,
                   !.currentVideoScreen = NoVideoScreen, !.currentRoom = None]

\* the statements of loadRoom that may throw, in program order
LoadRoomSteps == <<"setup", "spawnVideoScreen">>
LoadRoomOutcomes == {"ok"} \cup {LoadRoomSteps[i] : i \in 1..Len(LoadRoomSteps)}

\* loadRoom has no await: its body runs inside the call, up to the step that throws
loadRoom(s, theme, failAt) ==
    LET s0 == Call(s, "loadRoom", theme, NoText)
        s1 == unloadCurrentRoom(s0)
        s2 == [s1 EXCEPT !.currentRoom = theme]
        s3 == [s2 EXCEPT !.currentMicrophone = TRUE, !.microphone = MicrophoneEntity]
        s4 == [s3 EXCEPT !.currentVideoScreen = VideoScreen(None)]
    IN  CASE failAt = "setup" -> s1
          [] failAt = "spawnMicrophone" -> s2
          [] failAt = "spawnVideoScreen" -> s3
          [] OTHER -> s4

\* the statements of VideoScreen.loadVideo that may throw: createPlayer, which
\* destroys the player and constructs a new YT.Player
PlayVideoSteps == <<"createPlayer">>
PlayVideoOutcomes == {"ok"} \cup {PlayVideoSteps[i] : i \in 1..Len(PlayVideoSteps)}

\* loadVideo has set currentVideoId when createPlayer runs; nothing between
\* createPlayer and the caller of the flow controller catches what it throws
playVideo(s, youtubeId, failAt) ==
    LET s1 == Call([s EXCEPT !.currentVideoScreen = VideoScreen(youtubeId)],
                   "video.load", youtubeId, NoText)
    IN  IF ~s.currentVideoScreen.exists THEN s
        ELSE IF failAt = "createPlayer" THEN Call(s1, "throw", "createPlayer", NoText)
        ELSE s1

stopVideo(s) ==
    IF ~s.currentVideoScreen.exists THEN s
    ELSE Call([s EXCEPT !.currentVideoScreen = VideoScreen(None)],
              "video.stop", None, NoText)

(***************************************************************************)
(* AppFlowController: showSongSearch                                       *)
(***************************************************************************)
\* up to the await of loadSongs
showSongSearch(s) ==
    loadSongs(showLoading(hideAllPanels(setState(s, "song-search")), "Loading songs..."),
              s.currentRoom, "showSongSearch")

\* after loadSongs returned
showSongSearch_resolved(s) == showPanel(hideLoading(s), "song-search")

(***************************************************************************)
(* ProfileService                                                          *)
(***************************************************************************)
\* the display name the profile store holds for a returning player
StoredDisplayName == Rep("A", NAME_MIN_LENGTH)

\* localStorage.getItem inside try/catch: a storage that throws reads as null
getCachedProfileId(s, storageOk) == IF storageOk THEN s.storedProfileId ELSE NoId

\* localStorage.setItem inside try/catch: a storage that throws keeps its content
saveProfileId(s, profileId, storageOk) ==
    LET s1 == Call(s, "localStorage.setItem", profileId, NoText)
    IN  IF storageOk THEN [s1 EXCEPT !.storedProfileId = profileId]
        ELSE Call(s1, "localStorage.setItem.threw", profileId, NoText)

clearCache(s, storageOk) ==
    LET s1 == [s EXCEPT !.cachedProfile = NoPlayer]
    IN  IF storageOk THEN [s1 EXCEPT !.storedProfileId = NoId] ELSE s1

\* createProfile up to its await: POST /profiles is in flight
createProfile(s, name, awaiter) ==
    Await(Call(s, "fetch.createProfile", None, name),
          Req("createProfile", name, None, awaiter))

\* createProfile caching the player without persisting its id
createProfile_resolved_unsaved(s, name, id, storageOk) ==
    [s EXCEPT !.cachedProfile = Player(id, name)]

\* createProfile after a 2xx response: cache the player, persist its id
createProfile_resolved(s, name, id, storageOk) ==
    saveProfileId([s EXCEPT !.cachedProfile = Player(id, name)], id, storageOk)

\* getProfile after a 200 response
getProfile_resolved(s, id) == [s EXCEPT !.cachedProfile = Player(id, StoredDisplayName)]

\* loadCachedProfile up to its await: without a stored id it returns null at once
\* (the promise is settled when start awaits it), otherwise GET /profiles/:id is in flight
loadCachedProfile(s, storageOk) ==
    LET profileId == getCachedProfileId(s, storageOk)
    IN  IF profileId = NoId
        THEN [s EXCEPT !.microtask = Req("loadCachedProfile.null", NoText, None, "start")]
        ELSE Await(Call(s, "fetch.getProfile", profileId, NoText),
                   Req("getProfile", NoText, profileId, "start"))

\* what the GET /profiles/:id can answer
GetProfileOutcomes == {"found", "notFound", "failed"}

\* loadCachedProfile returning a profile for every answer of the server
loadCachedProfile_returns_anyAnswer(outcome) == outcome # "failed"

\* loadCachedProfile after getProfile settled: TRUE iff it returns a profile
loadCachedProfile_returns(outcome) == outcome = "found"

loadCachedProfile_settled(s, id, outcome, storageOk) ==
    CASE outcome = "found" -> getProfile_resolved(s, id)
      [] outcome = "notFound" -> s
      [] OTHER -> clearCache(s, storageOk)

(***************************************************************************)
(* AppFlowController: start, profile submit, room select                   *)
(***************************************************************************)
start(s, storageOk) ==
    loadCachedProfile(showLoading(setState(s, "initializing"), "Loading profile..."),
                      storageOk)

\* start after loadCachedProfile returned existingProfile
start_resolved(s, existingProfile) ==
    IF existingProfile THEN showRoomSelection(hideLoading(s))
    ELSE showProfileInput(hideLoading(s))

handleProfileSubmit(s, name) ==
    createProfile(showLoading(Call(s, "handleProfileSubmit", None, name),
                              "Creating profile..."),
                  name, "handleProfileSubmit")

handleProfileSubmit_resolved(s, name, id, storageOk) ==
    showRoomSelection(hideLoading(createProfile_resolved(s, name, id, storageOk)))

\* the catch block showing the error before it hides the loading overlay
handleProfileSubmit_rejected_errorFirst(s, name) ==
    hideLoading(showError(s, "Failed to create profile",
                          Thunk("handleProfileSubmit", name, None)))

handleProfileSubmit_rejected(s, name) ==
    showError(hideLoading(s), "Failed to create profile",
              Thunk("handleProfileSubmit", name, None))

\* up to the await: loadRoom has run to its end or to the step that threw
handleRoomSelect(s, theme, failAt) ==
    LET s1 == showLoading(hideAllPanels(setState(Call(s, "handleRoomSelect", theme, NoText),
                                                  "loading-room")),
                          "Loading room...")
        s2 == loadRoom(s1, theme, failAt)
    IN  [s2 EXCEPT !.microtask =
            Req(IF failAt = "ok" THEN "loadRoom.resolved" ELSE "loadRoom.rejected",
                NoText, theme, "handleRoomSelect")]

\* setTimeout(() => this.showSongSearch(), 500)
handleRoomSelect_resolved(s) ==
    Await(Call(setState(hideLoading(s), "in-room"), "setTimeout", None, NoText),
          Req("timer", NoText, None, "showSongSearch"))

\* the catch block storing a thunk that reselects the first theme of the list
handleRoomSelect_rejected_firstTheme(s, theme) ==
    showError(hideLoading(s), "Failed to load room",
              Thunk("handleRoomSelect", NoText, AllRoomThemes[1]))

handleRoomSelect_rejected(s, theme) ==
    showError(hideLoading(s), "Failed to load room",
              Thunk("handleRoomSelect", NoText, theme))

(***************************************************************************)
(* AppFlowController: song select, stop, back                              *)
(***************************************************************************)
handleSongSelect(s, youtubeId, failAt) ==
    playVideo(hidePanel(setState(Call(s, "handleSongSelect", youtubeId, NoText),
                                 "playing-song"),
                        "song-search"),
              youtubeId, failAt)

handleStopSong(s) == setState(stopVideo(Call(s, "handleStopSong", None, NoText)), "in-room")

handleBackToRoomSelection(s) ==
    showRoomSelection(unloadCurrentRoom(stopVideo(
        Call(s, "handleBackToRoomSelection", None, NoText))))

(***************************************************************************)
(* AppFlowController: error retry and dismiss; ErrorDisplay.handleClick    *)
(***************************************************************************)
\* invoke the stored thunk; failAt is what loadRoom does if the thunk reselects a room
handleErrorRetry(s, failAt) ==
    LET a == s.lastFailedAction
        s0 == Call(s, "handleErrorRetry", a.op, NoText)
    IN  CASE a.op = "handleProfileSubmit" -> handleProfileSubmit(s0, a.text)
          [] a.op = "handleRoomSelect" -> handleRoomSelect(s0, a.key, failAt)
          [] a.op = "showSongSearch" -> showSongSearch(s0)
          [] OTHER -> s0

\* dismiss that returns to room selection whether or not a room is loaded
handleErrorDismiss_toRoomSelection(s) ==
    showRoomSelection(ErrorDisplay_hide(Call(s, "handleErrorDismiss", None, NoText)))

handleErrorDismiss(s) ==
    LET s1 == ErrorDisplay_hide(Call(s, "handleErrorDismiss", None, NoText))
    IN  IF s1.currentRoom # None THEN showSongSearch(s1)
        ELSE showRoomSelection(s1)

\* onRetry(); this.hide()  /  onDismiss(); this.hide()
ErrorDisplay_handleClick(s, action, failAt) ==
    IF action = "retry" THEN ErrorDisplay_hide(handleErrorRetry(s, failAt))
    ELSE ErrorDisplay_hide(handleErrorDismiss(s))

(***************************************************************************)
(* ProfileInputPanel                                                       *)
(***************************************************************************)
RECURSIVE trimStart(_)
trimStart(str) == IF str # <<>> /\ Head(str) = " " THEN trimStart(Tail(str)) ELSE str

RECURSIVE trimEnd(_)
trimEnd(str) ==
    IF str # <<>> /\ str[Len(str)] = " " THEN trimEnd(SubSeq(str, 1, Len(str) - 1)) ELSE str

\* String.prototype.trim
trim(str) == trimEnd(trimStart(str))

slice(str, n) == SubSeq(str, 1, Len(str) - n)
substring(str, n) == SubSeq(str, 1, Min(Len(str), n))

setDisplayName(s, name) == [s EXCEPT !.displayName = name, !.errorMessage = ""]

\* validateName with the length of the name as it was entered
validateName_untrimmed(name) ==
    IF Len(name) < NAME_MIN_LENGTH THEN "Name must be at least 3 characters"
    ELSE IF Len(name) > NAME_MAX_LENGTH THEN "Name must be at most 20 characters"
    ELSE ""

\* the message validateName leaves in errorMessage; "" iff it returns true
validateName(name) ==
    IF Len(trim(name)) < NAME_MIN_LENGTH THEN "Name must be at least 3 characters"
    ELSE IF Len(trim(name)) > NAME_MAX_LENGTH THEN "Name must be at most 20 characters"
    ELSE ""

\* the onSubmit callback is AppFlowController.handleProfileSubmit
handleSubmit(s) ==
    LET s1 == [Call(s, "handleSubmit", None, s.displayName)
                  EXCEPT !.errorMessage = validateName(s.displayName)]
    IN  IF s1.errorMessage # "" THEN Call(s1, "redrawErrorText", None, NoText)
        ELSE handleProfileSubmit(Call(s1, "onSubmit", None, trim(s1.displayName)),
                                 trim(s1.displayName))

\* the window keydown listener of the profile panel
keyboardHandler(s, key) ==
    IF ~s.panels["profile-input"] THEN s
    ELSE IF key = "Enter" THEN handleSubmit(s)
    ELSE IF key = "Backspace"
         THEN IF Len(s.displayName) > 0
              THEN [s EXCEPT !.displayName = slice(@, 1)] ELSE s
    ELSE IF Len(s.displayName) < NAME_MAX_LENGTH
         THEN [s EXCEPT !.displayName = Append(@, key)] ELSE s

(***************************************************************************)
(* SongSearchPanel.searchSongs                                             *)
(***************************************************************************)
\* up to the await: a blank query reloads the theme's songs
searchSongs(s, query, awaiter) ==
    IF trim(query) = <<>> THEN loadSongs(s, s.panelTheme, awaiter)
    ELSE Await(Call(s, "fetch.searchSongs", None, query),
               Req("searchSongs", query, None, awaiter))

\* after the fetch settled: a failure is logged and leaves the list as it was
searchSongs_settled(s, ok, list) ==
    IF ok THEN updateSongList([s EXCEPT !.songs = list]) ELSE s

(***************************************************************************)
(* AppFlowController and VirtualKeyboard: the keyboard                     *)
(***************************************************************************)
setText(s, text) == [s EXCEPT !.currentText = substring(text, s.maxLength)]
setMaxLength(s, length) == [s EXCEPT !.maxLength = length]

openKeyboard(s, target) ==
    LET s1 == [Call(s, "openKeyboard", target, NoText) EXCEPT !.currentKeyboardTarget = target]
        s2 == IF target = "profile"
              THEN setMaxLength(setText(s1, s1.displayName), ProfileKeyboardMaxLength)
              ELSE setMaxLength(setText(s1, NoText), SearchKeyboardMaxLength)
    IN  showPanel(s2, "keyboard")

handleKeyboardTextChange(s, text) ==
    IF s.currentKeyboardTarget = "profile" THEN setDisplayName(s, text)
    ELSE IF s.currentKeyboardTarget = "song-search" THEN setSearchQuery(s, text)
    ELSE s

\* up to the await of searchSongs, or to the end when there is nothing to await
handleKeyboardDone(s, text) ==
    IF s.currentKeyboardTarget = "profile"
    THEN [setDisplayName(s, text) EXCEPT !.currentKeyboardTarget = None]
    ELSE IF s.currentKeyboardTarget = "song-search"
    THEN searchSongs(setSearchQuery(s, text), text, "handleKeyboardDone")
    ELSE [s EXCEPT !.currentKeyboardTarget = None]

handleKeyboardDone_resolved(s) == [s EXCEPT !.currentKeyboardTarget = None]

\* VirtualKeyboard.handleKeyPress; the keys are those of KEYBOARD_ROWS
handleKeyPress(s, key) ==
    LET s0 == Call(s, "handleKeyPress", key, NoText)
    IN  CASE key = "Backspace" ->
               IF Len(s0.currentText) > 0
               THEN LET s1 == [s0 EXCEPT !.currentText = slice(@, 1)]
                    IN  handleKeyboardTextChange(s1, s1.currentText)
               ELSE s0
          [] key = "Space" ->
               IF Len(s0.currentText) < s0.maxLength
               THEN LET s1 == [s0 EXCEPT !.currentText = Append(@, " ")]
                    IN  handleKeyboardTextChange(s1, s1.currentText)
               ELSE s0
          [] key = "Done" ->
               hidePanel(handleKeyboardDone(s0, s0.currentText), "keyboard")
          [] OTHER ->
               IF Len(s0.currentText) < s0.maxLength
               THEN LET s1 == [s0 EXCEPT !.currentText = Append(@, key)]
                    IN  handleKeyboardTextChange(s1, s1.currentText)
               ELSE s0

(***************************************************************************)
(* Actions.  A handler step runs to its next await without interleaving.   *)
(* While a settled promise's continuation is queued (microtask), nothing   *)
(* else runs.  A button's onClick is dispatched only for a button of a     *)
(* visible panel (UISystem.handleRaycast collects the buttons of visible   *)
(* panels); the desktop click handler asks for nothing more.  The Retry    *)
(* and Dismiss buttons belong to the ErrorDisplay and are pressed through  *)
(* ErrorDisplay.handleClick while the overlay is displayed.                *)
(***************************************************************************)
Is(s) ==
    /\ currentState = s.currentState
    /\ currentKeyboardTarget = s.currentKeyboardTarget
    /\ lastFailedAction = s.lastFailedAction
    /\ panels = s.panels
    /\ activePanel = s.activePanel
    /\ loadingVisible = s.loadingVisible
    /\ errorVisible = s.errorVisible
    /\ displayName = s.displayName
    /\ errorMessage = s.errorMessage
    /\ currentText = s.currentText
    /\ maxLength = s.maxLength
    /\ songs = s.songs
    /\ songButtons = s.songButtons
    /\ panelTheme = s.panelTheme
    /\ cachedProfile = s.cachedProfile
    /\ storedProfileId = s.storedProfileId
    /\ currentRoom = s.currentRoom
    /\ currentMicrophone = s.currentMicrophone
    /\ currentVideoScreen = s.currentVideoScreen
    /\ hasStartedFlow = s.hasStartedFlow
    /\ pending = s.pending
    /\ microtask = s.microtask
    /\ buttons = s.buttons
    /\ hoveredButton = s.hoveredButton
    /\ isHovered = s.isHovered
    /\ isActive = s.isActive
    /\ triggerStates = s.triggerStates
    /\ xrSession = s.xrSession
    /\ gamepad = s.gamepad
    /\ pressedLastFrame = s.pressedLastFrame
    /\ inputSources = s.inputSources
    /\ microphone = s.microphone
    /\ AppFlowController_triggerStates = s.AppFlowController_triggerStates
    /\ calls = s.calls

Idle == microtask = NoTask
HasRoom == BagCardinality(pending) < MaxPending
\* a handler runs to completion and its result becomes the state; the result
\* is bound once
Step(s) == \E next \in {s} : BagCardinality(next.pending) <= MaxPending /\ Becomes(next)

DesktopChars == {"A"}
DesktopKeys == {"Enter"}
KeyboardKeys == {"A", "Done"}

Init == \E stored \in {NoId} \cup ProfileIds : Is(Constructed(stored))

\* KaraokeVerseSystem.update starts the flow once
Start ==
    /\ Idle /\ ~hasStartedFlow
    /\ \E storageOk \in BOOLEAN :
          Step(start(Call([Cur EXCEPT !.hasStartedFlow = TRUE], "start", None, NoText),
                     storageOk))

LoadCachedProfileReturnsNull ==
    /\ microtask.kind = "loadCachedProfile.null"
    /\ Step(start_resolved(Call([Cur EXCEPT !.microtask = NoTask],
                                 "loadCachedProfile.returned", "noId", NoText),
                            FALSE))

GetProfileSettles ==
    /\ Idle
    /\ \E r \in BagToSet(pending), outcome \in GetProfileOutcomes, storageOk \in BOOLEAN :
          /\ r.kind = "getProfile"
          /\ Step(start_resolved(
                    loadCachedProfile_settled(
                        Call(Settle(Cur, r), "loadCachedProfile.returned", outcome, NoText),
                        r.key, outcome, storageOk),
                    loadCachedProfile_returns(outcome)))

ClickSubmit ==
    /\ Idle /\ panels["profile-input"] /\ HasRoom
    /\ Step(handleSubmit(Cur))

KeyDown ==
    /\ Idle /\ HasRoom
    /\ \E key \in DesktopKeys :
          /\ key \in DesktopChars => Len(displayName) < MaxTyped
          /\ Step(keyboardHandler(Call(Cur, "keydown", key, NoText), key))

ClickNameInput ==
    /\ Idle /\ panels["profile-input"]
    /\ Step(openKeyboard(Cur, "profile"))

ClickSearchInput ==
    /\ Idle /\ panels["song-search"]
    /\ Step(openKeyboard(Cur, "song-search"))

ClickKey ==
    /\ Idle /\ panels["keyboard"] /\ HasRoom
    /\ \E key \in KeyboardKeys :
          /\ key \in DesktopChars =>
                Len(currentText) < (IF currentKeyboardTarget = "profile"
                                    THEN MaxTyped ELSE MaxQuery)
          /\ Step(handleKeyPress(Cur, key))

CreateProfileResolves ==
    /\ Idle
    /\ \E r \in BagToSet(pending), id \in ProfileIds, storageOk \in BOOLEAN :
          /\ r.kind = "createProfile"
          /\ Step(handleProfileSubmit_resolved(
                    Call(Settle(Cur, r), "createProfile.resolved", id, r.text),
                    r.text, id, storageOk))

CreateProfileRejects ==
    /\ Idle
    /\ \E r \in BagToSet(pending) :
          /\ r.kind = "createProfile"
          /\ Step(handleProfileSubmit_rejected(
                    Call(Settle(Cur, r), "createProfile.rejected", None, r.text), r.text))

\* RoomSelectionPanel.handleRoomSelect: the onRoomSelect callback
ClickRoom ==
    /\ Idle /\ panels["room-selection"] /\ HasRoom
    /\ \E theme \in RoomTheme, failAt \in LoadRoomOutcomes :
          Step(handleRoomSelect(Cur, theme, failAt))

LoadRoomResolves ==
    /\ microtask.kind = "loadRoom.resolved"
    /\ Step(handleRoomSelect_resolved(
              Call([Cur EXCEPT !.microtask = NoTask], "loadRoom.resolved", microtask.key, NoText)))

LoadRoomRejects ==
    /\ microtask.kind = "loadRoom.rejected"
    /\ Step(handleRoomSelect_rejected(
              Call([Cur EXCEPT !.microtask = NoTask], "loadRoom.rejected", microtask.key, NoText),
              microtask.key))

TimerFires ==
    /\ Idle
    /\ \E r \in BagToSet(pending) :
          /\ r.kind = "timer"
          /\ Step(showSongSearch(Call(Settle(Cur, r), "timer", None, NoText)))

\* what follows the await of loadSongs or searchSongs in the handler that awaits
Resume(s, r) ==
    IF r.awaiter = "showSongSearch"
    THEN showSongSearch_resolved(s)
    ELSE handleKeyboardDone_resolved(s)

LoadSongsSettles ==
    /\ Idle
    /\ \E r \in BagToSet(pending), ok \in BOOLEAN, list \in SongResponses :
          /\ r.kind = "loadSongs"
          /\ Step(Resume(loadSongs_settled(
                           Call(Settle(Cur, r), IF ok THEN "loadSongs.ok" ELSE "loadSongs.failed",
                                r.awaiter, NoText),
                           ok, list), r))

SearchSongsSettles ==
    /\ Idle
    /\ \E r \in BagToSet(pending), ok \in BOOLEAN, list \in SongResponses :
          /\ r.kind = "searchSongs"
          /\ Step(Resume(searchSongs_settled(
                           Call(Settle(Cur, r),
                                IF ok THEN "searchSongs.ok" ELSE "searchSongs.failed",
                                r.awaiter, NoText),
                           ok, list), r))

\* SongSearchPanel.handleSongSelect: the onSongSelect callback gets song.youtubeId
ClickSong ==
    /\ Idle /\ panels["song-search"]
    /\ \E song \in songButtons, failAt \in PlayVideoOutcomes :
          Step(handleSongSelect(Cur, song.youtubeId, failAt))

ClickStop ==
    /\ Idle /\ panels["song-search"]
    /\ Step(handleStopSong(Cur))

ClickBack ==
    /\ Idle /\ panels["song-search"]
    /\ Step(handleBackToRoomSelection(Cur))

ClickRetry ==
    /\ Idle /\ errorVisible /\ HasRoom
    /\ \E failAt \in LoadRoomOutcomes :
          Step(ErrorDisplay_handleClick(Cur, "retry", failAt))

ClickDismiss ==
    /\ Idle /\ errorVisible /\ HasRoom
    /\ Step(ErrorDisplay_handleClick(Cur, "dismiss", "ok"))

Next ==
    \/ Start
    \/ LoadCachedProfileReturnsNull
    \/ GetProfileSettles
    \/ ClickSubmit
    \/ KeyDown
    \/ ClickNameInput
    \/ ClickSearchInput
    \/ ClickKey
    \/ CreateProfileResolves
    \/ CreateProfileRejects
    \/ ClickRoom
    \/ LoadRoomResolves
    \/ LoadRoomRejects
    \/ TimerFires
    \/ LoadSongsSettles
    \/ SearchSongsSettles
    \/ ClickSong
    \/ ClickStop
    \/ ClickBack
    \/ ClickRetry
    \/ ClickDismiss

Spec == Init /\ [][Next]_vars

(***************************************************************************)
(* The profile panel on its own: any name set through setDisplayName, then *)
(* submitted by the Submit button or the Enter key.                        *)
(***************************************************************************)
Names ==
    {Rep(" ", l) \o Rep("A", k) \o Rep(" ", r) :
        l \in 0..MaxPad, r \in 0..MaxPad, k \in 0..MaxCore}

\* the state start() ends in when there is no cached profile
ProfileInputShown ==
    start_resolved([start([Constructed(NoId) EXCEPT !.hasStartedFlow = TRUE], TRUE)
                       EXCEPT !.microtask = NoTask],
                   FALSE)

InitSubmit == Is(ProfileInputShown)

SetDisplayName ==
    /\ Idle
    /\ \E name \in Names :
          Step(setDisplayName(Call(Cur, "setDisplayName", None, name), name))

NextSubmit ==
    \/ SetDisplayName
    \/ ClickSubmit
    \/ KeyDown

SpecSubmit == InitSubmit /\ [][NextSubmit]_vars

(***************************************************************************)
(* The pointing layer: the hit test and hover state of UISystem, the       *)
(* trigger edges of UIController, the frame loop of AppFlowController and   *)
(* its desktop mouse listeners.  A ray is given by the distance at which it *)
(* meets each button mesh, 0 where it misses.                               *)
(***************************************************************************)
MaxDist == 2       \* distances along a ray
MaxHits == 2       \* meshes one ray meets

\* the buttons of the panels in the order of UISystem.panels, of all panels or
\* of the visible ones
RECURSIVE ButtonsFrom(_, _, _)
ButtonsFrom(s, i, visibleOnly) ==
    IF i > Len(PanelOrder) THEN <<>>
    ELSE (IF visibleOnly => s.panels[PanelOrder[i]] THEN s.buttons[PanelOrder[i]] ELSE <<>>)
         \o ButtonsFrom(s, i + 1, visibleOnly)

Meshes(list) == {list[i].mesh : i \in 1..Len(list)}

\* the rays that meet at most MaxHits of the given meshes
Rays(meshes) ==
    {[m \in meshes |-> IF m \in DOMAIN h THEN h[m] ELSE 0] :
        h \in UNION {[H -> 1..MaxDist] :
                        H \in {X \in SUBSET meshes : Cardinality(X) <= MaxHits}}}

\* Raycaster.intersectObjects(objects, false): the objects the ray meets, sorted
\* by distance, nearest first; objects at the same distance keep their order
RECURSIVE intersectObjects(_, _, _)
intersectObjects(objects, dist, d) ==
    IF d > MaxDist THEN <<>>
    ELSE SelectSeq(objects, LAMBDA b : dist[b.mesh] = d)
         \o intersectObjects(objects, dist, d + 1)

setButtonHover(s, button, hovered) ==
    [s EXCEPT !.isHovered = IF hovered THEN @ \cup {button.mesh} ELSE @ \ {button.mesh}]

\* the call "handleRaycast" in the trace carries the mesh of the button returned
\* and the ray
handleRaycast(s, dist) ==
    LET buttonMeshes == ButtonsFrom(s, 1, TRUE)
        intersects == intersectObjects(buttonMeshes, dist, 1)
        s1 == IF s.hoveredButton # NoButton
              THEN [setButtonHover(s, s.hoveredButton, FALSE) EXCEPT !.hoveredButton = NoButton]
              ELSE s
        found == SelectSeq(ButtonsFrom(s, 1, FALSE), LAMBDA b : b.id = intersects[1].id)
    IN  IF buttonMeshes = <<>> THEN Call(s, "handleRaycast", None, <<dist>>)
        ELSE IF intersects # <<>>
        THEN Call([setButtonHover(s1, found[1], TRUE) EXCEPT !.hoveredButton = found[1]],
                  "handleRaycast", found[1].mesh, <<dist>>)
        ELSE Call(s1, "handleRaycast", None, <<dist>>)

\* the button the last handleRaycast of the step returned
Returned(s) ==
    IF s.calls[Len(s.calls)].key = None THEN NoButton ELSE s.hoveredButton

\* button.onClick(): the closure the panel gave the button
onClick(s, button, failAt) ==
    LET s0 == Call(s, "onClick", button.mesh, NoText)
    IN  CASE button.op = "openKeyboard" -> openKeyboard(s0, button.arg)
          [] button.op = "handleSubmit" -> handleSubmit(s0)
          [] button.op = "handleRoomSelect" -> handleRoomSelect(s0, button.arg, failAt)
          [] button.op = "handleStopSong" -> handleStopSong(s0)
          [] button.op = "handleBackToRoomSelection" -> handleBackToRoomSelection(s0)
          [] button.op = "handleSongSelect" -> handleSongSelect(s0, button.arg, failAt)
          [] button.op = "handleKeyPress" -> handleKeyPress(s0, button.arg)

handleTriggerPress(s, failAt) ==
    IF s.hoveredButton # NoButton
    THEN onClick([s EXCEPT !.isActive = @ \cup {s.hoveredButton.mesh}], s.hoveredButton, failAt)
    ELSE s

handleTriggerRelease(s) ==
    IF s.hoveredButton # NoButton /\ s.hoveredButton.mesh \in s.isActive
    THEN [s EXCEPT !.isActive = @ \ {s.hoveredButton.mesh}]
    ELSE s

\* UIController.processControllerInput; posed are the sources that are
\* tracked pointers with a target ray pose in this frame, of which the first is
\* processed
processControllerInput(s, posed, dist, failAt) ==
    IF ~hasVisiblePanel(s) THEN s
    ELSE LET found == SelectSeq(s.inputSources, LAMBDA src : src \in posed)
             source == found[1]
             isTriggerPressed == s.gamepad[source]
             wasTriggerPressed == s.triggerStates[source]
             s1 == handleRaycast(s, dist)
             s2 == IF isTriggerPressed /\ ~wasTriggerPressed
                   THEN handleTriggerPress(Call(s1, "triggerPressed", source, NoText), failAt)
                   ELSE s1
             s3 == IF ~isTriggerPressed /\ wasTriggerPressed
                   THEN handleTriggerRelease(s2)
                   ELSE s2
         IN  IF found = <<>> THEN s
             ELSE [s3 EXCEPT !.triggerStates[source] = isTriggerPressed]

\* MicrophoneEntity.grab, release and updatePosition
grab(s, controller) ==
    IF s.microphone.isGrabbed THEN s
    ELSE Call([s EXCEPT !.microphone.isGrabbed = TRUE,
                        !.microphone.grabbingController = controller],
              "grab", controller, NoText)

\* release leaving the microphone where it is
release_inPlace(s) ==
    IF ~s.microphone.isGrabbed THEN s
    ELSE Call([s EXCEPT !.microphone.isGrabbed = FALSE,
                        !.microphone.grabbingController = None],
              "release", s.microphone.grabbingController, NoText)

release(s) ==
    IF ~s.microphone.isGrabbed THEN s
    ELSE Call([s EXCEPT !.microphone.isGrabbed = FALSE,
                        !.microphone.grabbingController = None,
                        !.microphone.position = "spawn"],
              "release", s.microphone.grabbingController, NoText)

updatePosition(s, controllerPosition) ==
    IF s.microphone.isGrabbed THEN [s EXCEPT !.microphone.position = controllerPosition] ELSE s

\* AppFlowController.processMicrophoneInput from the i-th input source on;
\* posed are the sources with a grip pose in this frame, near those of them
\* whose pose is within grab distance of the microphone
RECURSIVE processMicrophoneInput(_, _, _, _)
processMicrophoneInput(s, i, posed, near) ==
    IF ~s.currentMicrophone \/ i > Len(s.inputSources) THEN s
    ELSE LET source == s.inputSources[i]
             isTriggerPressed == s.gamepad[source]
             wasTriggerPressed == s.AppFlowController_triggerStates[source]
             isGrabbedBy(m) == m.isGrabbed /\ m.grabbingController = source
             s0 == Call(s, "getPose", source, IF source \in near THEN <<"near">> ELSE <<"far">>)
             s1 == IF /\ isTriggerPressed /\ ~wasTriggerPressed
                      /\ ~s0.microphone.isGrabbed /\ source \in near
                   THEN grab(s0, source)
                   ELSE s0
             s2 == IF ~isTriggerPressed /\ wasTriggerPressed /\ isGrabbedBy(s1.microphone)
                   THEN release(s1)
                   ELSE s1
             s3 == IF isGrabbedBy(s2.microphone) THEN updatePosition(s2, source) ELSE s2
             s4 == [s3 EXCEPT !.AppFlowController_triggerStates[source] = isTriggerPressed]
             rest(next) == processMicrophoneInput(next, i + 1, posed, near)
         IN  CHOOSE last \in {rest(next) : next \in {IF source \in posed THEN s4 ELSE s}} : TRUE

\* AppFlowController.update, one frame; processDesktopInput is empty. The
\* state is read after the controller input was processed, and an exception
\* of a button callback leaves update
update(s, posed, dist, failAt, near) ==
    LET s0 == [Call(s, "update", None, NoText) EXCEPT !.pressedLastFrame = s.gamepad]
        afterControllerInput ==
            CHOOSE s1 \in {processControllerInput(v, posed, dist, failAt) : v \in {s0}} : TRUE
        afterMicrophoneInput(s1) ==
            IF \E i \in DOMAIN s1.calls : s1.calls[i].call = "throw" THEN s1
            ELSE IF s1.currentState \in {"in-room", "playing-song"}
                 THEN processMicrophoneInput(s1, 1, posed, near)
            ELSE s1
    IN  IF s0.loadingVisible \/ ~s0.xrSession THEN s0
        ELSE CHOOSE s2 \in {afterMicrophoneInput(s1) : s1 \in {afterControllerInput}} : TRUE

\* the click and mousemove listeners of the canvas
onMouseClick(s, dist, failAt) ==
    LET s0 == Call(s, "onMouseClick", None, NoText)
        s1 == handleRaycast(s0, dist)
    IN  IF ~hasVisiblePanel(s0) THEN s0
        ELSE IF Returned(s1) # NoButton THEN onClick(s1, Returned(s1), failAt)
        ELSE s1

onMouseMove(s, dist) ==
    LET s0 == Call(s, "onMouseMove", None, NoText)
    IN  IF ~hasVisiblePanel(s0) THEN s0 ELSE handleRaycast(s0, dist)

(***************************************************************************)
(* The program driven through the pointing layer: frames, mouse events,    *)
(* triggers pressed and released, XR sessions started and ended, and the    *)
(* completions of what the button callbacks started.                        *)
(***************************************************************************)
VisibleMeshes == Meshes(ButtonsFrom(Cur, 1, TRUE))

\* the buttons the pointer is put on: Continue, the rooms, Stop and Back (not
\* the two text fields, which open the keyboard)
PointerTargets ==
    LET visible == ButtonsFrom(Cur, 1, TRUE)
    IN  {visible[i].mesh : i \in {j \in 1..Len(visible) : visible[j].op # "openKeyboard"}}

\* the rays of a pointer that is on one of these buttons or on none
Pointing ==
    {[m \in VisibleMeshes |-> IF m = target THEN 1 ELSE 0] :
        target \in PointerTargets \cup {None}}

\* a frame with the controllers pointing at the panels, out of reach of the
\* microphone
Frame ==
    /\ Idle
    /\ \E posed \in SUBSET {inputSources[i] : i \in DOMAIN inputSources},
          dist \in Pointing, failAt \in LoadRoomOutcomes :
          Step(update(Cur, posed, dist, failAt, {}))

MouseClick ==
    /\ Idle
    /\ \E dist \in Pointing, failAt \in LoadRoomOutcomes :
          Step(onMouseClick(Cur, dist, failAt))

MouseMove ==
    /\ Idle
    /\ \E dist \in Pointing : Step(onMouseMove(Cur, dist))

PressTrigger ==
    /\ Idle /\ xrSession
    /\ \E src \in {inputSources[i] : i \in DOMAIN inputSources} :
          /\ ~gamepad[src]
          /\ Step([Cur EXCEPT !.gamepad[src] = TRUE])

ReleaseTrigger ==
    /\ Idle /\ xrSession
    /\ \E src \in {inputSources[i] : i \in DOMAIN inputSources} :
          /\ gamepad[src]
          /\ Step([Cur EXCEPT !.gamepad[src] = FALSE])

\* the input sources of a new session are new objects: the two triggerStates
\* maps have no entry for them, which reads as not pressed, and a microphone
\* still grabbed is grabbed by a source that is gone
SessionStart ==
    /\ Idle /\ ~xrSession
    /\ Step([Cur EXCEPT !.xrSession = TRUE,
                        !.inputSources = InputSources,
                        !.triggerStates = [src \in Sources |-> FALSE],
                        !.AppFlowController_triggerStates = [src \in Sources |-> FALSE],
                        !.microphone.grabbingController =
                            IF microphone.isGrabbed THEN "gone" ELSE None])

SessionEnd ==
    /\ Idle /\ xrSession
    /\ Step([Cur EXCEPT !.xrSession = FALSE,
                        !.inputSources = <<>>,
                        !.gamepad = [src \in Sources |-> FALSE],
                        !.pressedLastFrame = [src \in Sources |-> FALSE]])

NextInput ==
    \/ Start
    \/ LoadCachedProfileReturnsNull
    \/ GetProfileSettles
    \/ LoadRoomResolves
    \/ LoadRoomRejects
    \/ TimerFires
    \/ LoadSongsSettles
    \/ Frame
    \/ MouseClick
    \/ MouseMove
    \/ PressTrigger
    \/ ReleaseTrigger
    \/ SessionStart
    \/ SessionEnd

SpecInput == Init /\ [][NextInput]_vars

(***************************************************************************)
(* UISystem on its own, under the calls the panels and the input paths     *)
(* make on it: show and hide, the song buttons that a refresh of the song   *)
(* list adds, and the hit test with any ray.                                *)
(***************************************************************************)
MaxRefresh == 2    \* refreshes of the song list

\* the meshes of the buttons that successive refreshes create for one song
SongButtonMeshes == <<"song-1#1", "song-1#2", "song-1#3", "song-1#4">>

addButtonToPanel(s, type, button) ==
    [s EXCEPT !.buttons[type] = Append(@, button)]

ShowPanel ==
    /\ Idle
    /\ \E type \in UIPanelType : Step(showPanel(Cur, type))

HidePanel ==
    /\ Idle
    /\ \E type \in UIPanelType \cup {"unregistered"} :
          Step(hidePanel(Call(Cur, "hidePanel", type, NoText), type))

HideAllPanels ==
    /\ Idle
    /\ Step(hideAllPanels(Cur))

\* SongSearchPanel.updateSongList for a list of one song: the button it made
\* before stays in the panel's buttons, a new one with the same id is added
UpdateSongList ==
    LET made == Cardinality({i \in 1..Len(buttons["song-search"]) :
                                buttons["song-search"][i].op = "handleSongSelect"})
    IN  /\ made < MaxRefresh
        /\ Step(addButtonToPanel(Call(Cur, "updateSongList", None, NoText), "song-search",
                                 Button("song-1", SongButtonMeshes[made + 1],
                                        "handleSongSelect", SongA.youtubeId)))

HandleRaycast ==
    /\ Idle
    /\ \E dist \in Rays(VisibleMeshes) : Step(handleRaycast(Cur, dist))

NextUISystem ==
    \/ ShowPanel
    \/ HidePanel
    \/ HideAllPanels
    \/ UpdateSongList
    \/ HandleRaycast

SpecUISystem == Init /\ [][NextUISystem]_vars

(***************************************************************************)
(* The microphone: the program in an XR session with NumControllers        *)
(* controllers, from the room selection that start() shows for a stored     *)
(* profile that is found. Rooms are entered and left, songs selected and    *)
(* stopped by the button callbacks, while the triggers are pressed and       *)
(* released and frames run.                                                 *)
(***************************************************************************)
NumControllers == 2    \* controllers of the session

InitMicrophone ==
    LET id == AllProfileIds[1]
        started == start([Constructed(id) EXCEPT !.hasStartedFlow = TRUE], TRUE)
        shown == start_resolved(
                     getProfile_resolved([started EXCEPT !.pending = EmptyBag], id), TRUE)
    IN  Is([shown EXCEPT !.xrSession = TRUE,
                         !.inputSources = SubSeq(Controllers, 1, NumControllers)])

\* a frame with the controllers pointing at no button; a source that is
\* tracked has its target ray pose and its grip pose, and is within grab
\* distance of the microphone or not
FrameGrab ==
    /\ Idle
    /\ \E posed \in SUBSET {inputSources[i] : i \in DOMAIN inputSources} :
          \E near \in SUBSET posed :
              Step(update(Cur, posed, [m \in VisibleMeshes |-> 0], "ok", near))

NextMicrophone ==
    \/ ClickRoom
    \/ LoadRoomResolves
    \/ TimerFires
    \/ LoadSongsSettles
    \/ ClickSong
    \/ ClickStop
    \/ ClickBack
    \/ FrameGrab
    \/ PressTrigger
    \/ ReleaseTrigger

SpecMicrophone == InitMicrophone /\ [][NextMicrophone]_vars

\* a frame in which every controller has a grip pose
FrameTracked ==
    /\ Idle
    /\ \E near \in SUBSET {inputSources[i] : i \in DOMAIN inputSources} :
          Step(update(Cur, {inputSources[i] : i \in DOMAIN inputSources},
                      [m \in VisibleMeshes |-> 0], "ok", near))

\* the session keeps delivering frames with the controllers tracked, the
\* timer fires, and the scene and catalog requests settle; what the user does
\* (buttons, triggers) is left open
FairSpecMicrophone ==
    /\ SpecMicrophone
    /\ WF_vars(FrameTracked)
    /\ WF_vars(LoadRoomResolves)
    /\ WF_vars(TimerFires)
    /\ WF_vars(LoadSongsSettles)

(***************************************************************************)
(* Properties                                                              *)
(***************************************************************************)

\* C1: whenever handleSubmit ran on a display name, the submit callback was
\* invoked (with the trimmed name, followed by the profile POST) if and only if
\* the trimmed name has 3 to 20 characters; for every other name an inline
\* error is set, no callback and no POST is issued, and the state is still
\* profile-input.
C1_SubmitIffValidName ==
    \A i \in DOMAIN calls :
        calls[i].call = "handleSubmit" =>
            LET name == calls[i].text
                valid == Len(trim(name)) >= 3 /\ Len(trim(name)) <= 20
                submitted == \E j \in DOMAIN calls :
                                 calls[j].call = "onSubmit" /\ calls[j].text = trim(name)
                posted == \E j \in DOMAIN calls : calls[j].call = "fetch.createProfile"
            IN  /\ valid <=> submitted
                /\ valid <=> posted
                /\ ~valid => /\ errorMessage # ""
                             /\ \A j \in DOMAIN calls : calls[j].call # "onSubmit"
                             /\ currentState = "profile-input"

\* a padded name of 22 characters whose trimmed form has 20 was submitted
C1_Witness ==
    \E i \in DOMAIN calls :
        /\ calls[i].call = "handleSubmit"
        /\ Len(calls[i].text) = 22
        /\ Len(trim(calls[i].text)) = 20
        /\ \E j \in DOMAIN calls : calls[j].call = "onSubmit"

\* C2: once handleErrorDismiss has run, the stored retry thunk is cleared
\* (lastFailedAction is null), so that no later retry can re-run the
\* operation of a failure that was dismissed.
C2_ThunkClearedOnDismiss ==
    (\E i \in DOMAIN calls : calls[i].call = "handleErrorDismiss") =>
        lastFailedAction = NoAction

\* C3, for all four panels of the registry: in every reachable state at most
\* one of profile-input, room-selection, song-search and keyboard is flagged
\* visible.
C3_AtMostOnePanelVisible ==
    Cardinality({type \in UIPanelType : panels[type]}) <= 1

\* C3, for the panels the flow transitions show: in every reachable state at
\* most one of profile-input, room-selection and song-search is flagged
\* visible (the claim asks this of all four panels, the keyboard included).
C3_AtMostOneMainPanelVisible ==
    Cardinality({type \in UIPanelType \ {"keyboard"} : panels[type]}) <= 1

\* C4: a room load that fails is awaited in state loading-room with the
\* loading overlay shown; when it has failed the state is error, the loading
\* overlay is hidden, the error overlay is shown and the stored thunk
\* reselects the theme that failed; pressing retry on such a thunk calls
\* loadRoom with exactly that theme in state loading-room, and a load that
\* succeeds ends in in-room with that theme's room loaded.
C4_RoomLoadFailureRetriesSameTheme ==
    /\ microtask.kind \in {"loadRoom.resolved", "loadRoom.rejected"} =>
            currentState = "loading-room" /\ loadingVisible
    /\ \A theme \in RoomTheme :
          /\ (calls # <<>> /\ calls[1] = Ev("loadRoom.rejected", theme, NoText)) =>
                /\ currentState = "error"
                /\ ~loadingVisible
                /\ errorVisible
                /\ lastFailedAction = Thunk("handleRoomSelect", NoText, theme)
          /\ (/\ calls # <<>>
              /\ calls[1] = Ev("handleErrorRetry", "handleRoomSelect", NoText)
              /\ lastFailedAction.key = theme) =>
                /\ \E i \in DOMAIN calls : calls[i] = Ev("loadRoom", theme, NoText)
                /\ \A i \in DOMAIN calls : calls[i].call = "loadRoom" => calls[i].key = theme
                /\ microtask.kind \in {"loadRoom.resolved", "loadRoom.rejected"}
                /\ microtask.key = theme
          /\ (calls # <<>> /\ calls[1] = Ev("loadRoom.resolved", theme, NoText)) =>
                /\ currentState = "in-room"
                /\ currentRoom = theme
                /\ ~loadingVisible

\* retry was pressed on the error of a failed kpop load and loadRoom("kpop")
\* has been called again, this time without failing
C4_Witness ==
    /\ calls # <<>>
    /\ calls[1] = Ev("handleErrorRetry", "handleRoomSelect", NoText)
    /\ lastFailedAction = Thunk("handleRoomSelect", NoText, "kpop")
    /\ \E i \in DOMAIN calls : calls[i] = Ev("loadRoom", "kpop", NoText)
    /\ microtask.kind = "loadRoom.resolved"

\* C5: a step in which the profile POST of a name fails ends in state error
\* with the error overlay shown and the loading overlay hidden, hides the
\* loading overlay before it shows the error overlay, stores the thunk that
\* resubmits that name, and leaves the in-memory profile and the stored
\* identifier as they were; pressing retry on such a thunk POSTs the name
\* the thunk holds.
C5_ProfileCreateFailure ==
    [][/\ (calls' # <<>> /\ calls'[1].call = "createProfile.rejected") =>
            /\ currentState' = "error"
            /\ errorVisible'
            /\ ~loadingVisible'
            /\ \E i, j \in DOMAIN calls' :
                  /\ calls'[i].call = "loading.hide"
                  /\ calls'[j].call = "error.show"
                  /\ i < j
                  /\ \A k \in DOMAIN calls' : calls'[k].call = "error.show" => i < k
            /\ lastFailedAction' = Thunk("handleProfileSubmit", calls'[1].text, None)
            /\ cachedProfile' = cachedProfile
            /\ storedProfileId' = storedProfileId
       /\ (calls' # <<>> /\ calls'[1] = Ev("handleErrorRetry", "handleProfileSubmit", NoText)) =>
            /\ \E i \in DOMAIN calls' :
                  calls'[i] = Ev("fetch.createProfile", None, lastFailedAction.text)
            /\ \A i \in DOMAIN calls' :
                  calls'[i].call = "fetch.createProfile" =>
                      calls'[i].text = lastFailedAction.text
      ]_vars

\* the POST of the name AAA has just failed while an identifier was stored
C5_Witness ==
    /\ calls # <<>>
    /\ calls[1] = Ev("createProfile.rejected", None, <<"A", "A", "A">>)
    /\ lastFailedAction = Thunk("handleProfileSubmit", <<"A", "A", "A">>, None)
    /\ storedProfileId # NoId
    /\ currentState = "error"

\* C6: when the song fetch that showSongSearch awaits has failed, the error
\* overlay is shown, the state is error, the stored thunk re-runs
\* showSongSearch, and the song-search panel is not shown.
C6_SongLoadFailureShowsError ==
    (calls # <<>> /\ calls[1] = Ev("loadSongs.failed", "showSongSearch", NoText)) =>
        /\ errorVisible
        /\ currentState = "error"
        /\ lastFailedAction = Thunk("showSongSearch", NoText, None)
        /\ ~panels["song-search"]

C9_ProfileCreatedAndPersisted ==
    (calls # <<>> /\ calls[1].call = "createProfile.resolved") =>
        /\ currentState = "room-selection"
        /\ panels["room-selection"]
        /\ ~panels["profile-input"]
        /\ storedProfileId = calls[1].key

\* C9 (amended): a step in which the POST of a submitted name succeeds ends
\* in state room-selection with the room-selection panel visible, the
\* profile-input panel and the loading overlay hidden, and the returned player
\* cached in memory; the returned identifier is written under the
\* local-storage key, and it is the stored identifier afterwards unless the
\* write threw, in which case the stored identifier is what it was.
C9_ProfileCreatedAndPersistedUnlessStorageThrows ==
    [][(calls' # <<>> /\ calls'[1].call = "createProfile.resolved") =>
          LET id == calls'[1].key
              name == calls'[1].text
              threw == \E i \in DOMAIN calls' :
                           calls'[i] = Ev("localStorage.setItem.threw", id, NoText)
          IN  /\ currentState' = "room-selection"
              /\ panels'["room-selection"]
              /\ ~panels'["profile-input"]
              /\ ~loadingVisible'
              /\ cachedProfile' = Player(id, name)
              /\ \E i \in DOMAIN calls' : calls'[i] = Ev("localStorage.setItem", id, NoText)
              /\ storedProfileId' = IF threw THEN storedProfileId ELSE id
      ]_vars

\* the POST of the name AAA succeeded and the returned identifier p1 is stored
\* where nothing was stored before
C9_Witness ==
    /\ calls # <<>>
    /\ calls[1] = Ev("createProfile.resolved", "p1", <<"A", "A", "A">>)
    /\ \A i \in DOMAIN calls : calls[i].call # "localStorage.setItem.threw"
    /\ storedProfileId = "p1"
    /\ cachedProfile = Player("p1", <<"A", "A", "A">>)
    /\ currentState = "room-selection"

\* C10: a step that selects a song in state song-search ends in state
\* playing-song with the video screen asked to load exactly that song's video
\* identifier; a step that presses stop in state playing-song ends in state
\* in-room with the video screen asked to stop.
C10_SelectPlaysAndStopStops ==
    [][/\ (currentState = "song-search" /\ calls' # <<>>
           /\ calls'[1].call = "handleSongSelect") =>
             /\ currentState' = "playing-song"
             /\ \E i \in DOMAIN calls' : calls'[i] = Ev("video.load", calls'[1].key, NoText)
             /\ currentVideoScreen' = VideoScreen(calls'[1].key)
       /\ (currentState = "playing-song" /\ calls' # <<>>
           /\ calls'[1].call = "handleStopSong") =>
             /\ currentState' = "in-room"
             /\ \E i \in DOMAIN calls' : calls'[i].call = "video.stop"
             /\ currentVideoScreen' = VideoScreen(None)
      ]_vars

\* C11: whenever the state is in-room, the transition to song-search is
\* already on its way without further user input: the 500 ms timer that runs
\* showSongSearch is pending.
C11_InRoomLeadsToSongSearch ==
    currentState = "in-room" =>
        \E r \in BagToSet(pending) : r.kind = "timer"

\* C12: when back has been pressed, the video was asked to stop, and the state
\* is room-selection with its panel shown and no room, microphone or video
\* screen loaded; and the step that follows, if it is the delayed
\* auto-transition or the return of a song fetch that was pending when back
\* was pressed, leaves the state room-selection and the song-search panel
\* hidden.
C12_BackEndsInRoomSelection ==
    [][(calls # <<>> /\ calls[1].call = "handleBackToRoomSelection") =>
          /\ currentState = "room-selection"
          /\ panels["room-selection"]
          /\ currentRoom = None
          /\ ~currentMicrophone
          /\ currentVideoScreen = NoVideoScreen
          /\ (calls' # <<>> /\ calls'[1].call \in {"timer", "loadSongs.ok", "loadSongs.failed"}) =>
                /\ currentState' = "room-selection"
                /\ ~panels'["song-search"]
      ]_vars

\* the requests the flow controller awaits behind the loading overlay: the
\* profile lookup of start, the profile creation of handleProfileSubmit and the
\* song fetch of showSongSearch (a room load is a queued continuation)
FlowRequests ==
    {r \in BagToSet(pending) :
        \/ r.kind \in {"getProfile", "createProfile"}
        \/ r.kind = "loadSongs" /\ r.awaiter = "showSongSearch"}

\* C13: in every reachable state, if a flow request (profile lookup, profile
\* creation, room load, song fetch of showSongSearch) is pending, then the
\* loading overlay is visible.
C13_LoadingVisibleWhilePending ==
    (\/ FlowRequests # {}
     \/ microtask.kind \in {"loadCachedProfile.null", "loadRoom.resolved", "loadRoom.rejected"})
        => loadingVisible

\* all the loads the flow controller has started and not yet seen settle
OutstandingFlowRequests ==
    BagCardinality(BagOfAll(LAMBDA r : r.kind,
        [r \in FlowRequests |-> CopiesIn(r, pending)]))
    + (IF microtask = NoTask THEN 0 ELSE 1)

\* C14: at most one flow request (profile load, profile create, room load, song
\* load) is outstanding at any time.
C14_AtMostOneFlowRequest ==
    OutstandingFlowRequests <= 1

\* the calls that are a button's callback (handleSubmit is the Submit button's,
\* and is also what the Enter key of the desktop keyboard runs)
ButtonCallbacks ==
    {"handleSubmit", "openKeyboard", "handleKeyPress", "handleRoomSelect",
     "handleSongSelect", "handleStopSong", "handleBackToRoomSelection",
     "handleErrorRetry", "handleErrorDismiss"}

\* C15: a step taken while the loading overlay is visible is never a button
\* callback, by whichever input path.
C15_NoCallbackWhileLoading ==
    [][loadingVisible =>
          \A i \in DOMAIN calls' : calls'[i].call \notin ButtonCallbacks]_vars

\* C16: one input modality at a time, chosen by the XR session: while a session
\* exists, a mouse click or mouse move changes no hover state and invokes no
\* button callback; while none exists, a frame runs no hit test for a
\* controller, changes no hover state and invokes no button callback.
C16_OneInputModality ==
    [][/\ (xrSession /\ calls' # <<>> /\ calls'[1].call \in {"onMouseClick", "onMouseMove"}) =>
              /\ hoveredButton' = hoveredButton
              /\ isHovered' = isHovered
              /\ \A i \in DOMAIN calls' : calls'[i].call # "onClick"
       /\ (~xrSession /\ calls' # <<>> /\ calls'[1].call = "update") =>
              /\ hoveredButton' = hoveredButton
              /\ isHovered' = isHovered
              /\ \A i \in DOMAIN calls' : calls'[i].call \notin {"handleRaycast", "onClick"}
      ]_vars

\* C17: a frame invokes a button callback for a controller only if that
\* controller's trigger is pressed in this frame and was not pressed when the
\* previous frame ran, whether or not the previous frame processed input.
C17_CallbackOnlyOnNewPress ==
    [][(calls' # <<>> /\ calls'[1].call = "update") =>
          \A i \in DOMAIN calls' :
              (calls'[i].call = "triggerPressed" /\ i < Len(calls')
                 /\ calls'[i + 1].call = "onClick") =>
                  /\ gamepad[calls'[i].key]
                  /\ ~pressedLastFrame[calls'[i].key]
      ]_vars

\* C18: a button returned by handleRaycast belongs to a panel that is visible,
\* is met by the ray, and no button of a visible panel is met by the ray at a
\* smaller distance.
C18_NearestButtonOfVisiblePanel ==
    (calls # <<>> /\ calls[1].call = "handleRaycast" /\ calls[1].key # None) =>
        LET dist == calls[1].text[1]
            mesh == calls[1].key
        IN  /\ \E type \in UIPanelType :
                  /\ panels[type]
                  /\ \E i \in 1..Len(buttons[type]) : buttons[type][i].mesh = mesh
            /\ mesh \in DOMAIN dist
            /\ dist[mesh] > 0
            /\ \A m \in DOMAIN dist : dist[m] > 0 => dist[mesh] <= dist[m]

\* C19: after a call of handleRaycast the buttons whose hover flag is set are
\* exactly the button returned, which is also hoveredButton; when it returned
\* null no flag is set and hoveredButton is null.
C19_HoverIsTheReturnedButton ==
    (calls # <<>> /\ calls[1].call = "handleRaycast") =>
        IF calls[1].key = None
        THEN isHovered = {} /\ hoveredButton = NoButton
        ELSE isHovered = {calls[1].key} /\ hoveredButton.mesh = calls[1].key

\* C20: no step of the flow controller ends with an exception thrown to its
\* caller, whatever the profile store, the scene loader, the song catalog and
\* the video player did.
C20_NoErrorPropagates ==
    \A i \in DOMAIN calls : calls[i].call # "throw"

\* C21: hide and hideAll are idempotent. In every reachable state of UISystem,
\* for every panel id, hidePanel called a second time leaves the state that the
\* first call produced, with the panel hidden; hideAllPanels leaves every panel
\* hidden and the active panel unset, and a second hideAllPanels (nothing
\* visible) leaves exactly that; hidePanel of an id no panel was created for
\* changes nothing. No step of hidePanel or hideAllPanels raises.
C21_HideIsIdempotent ==
    /\ \A type \in UIPanelType :
          /\ ~hidePanel(Cur, type).panels[type]
          /\ hidePanel(hidePanel(Cur, type), type) = hidePanel(Cur, type)
    /\ LET hidden == hidePanelsFrom(Cur, 1)
       IN  /\ \A type \in UIPanelType : ~hidden.panels[type]
           /\ hidden.activePanel = None
           /\ hidePanelsFrom(hidden, 1) = hidden
    /\ hidePanel(Cur, "unregistered") = Cur
    /\ (calls # <<>> /\ calls[1].call \in {"hidePanel", "hideAllPanels"}) =>
          /\ \A i \in DOMAIN calls : calls[i].call # "throw"
          /\ calls[1].call = "hidePanel" /\ calls[1].key \in UIPanelType
                => ~panels[calls[1].key]
          /\ calls[1].call = "hideAllPanels" =>
                (activePanel = None /\ \A type \in UIPanelType : ~panels[type])

\* hidePanel has run on a panel while another panel stays visible: a state in
\* which a further hide of the same panel and a hideAll have something to keep
\* and something to hide
C21_Witness ==
    /\ calls # <<>>
    /\ calls[1].call = "hidePanel"
    /\ calls[1].key \in UIPanelType
    /\ ~panels[calls[1].key]
    /\ activePanel = None
    /\ \E type \in UIPanelType : panels[type]

C29_ReleasedTriggerReleasesMicrophone ==
    (/\ microphone.isGrabbed
     /\ microphone.grabbingController \in Sources
     /\ ~gamepad[microphone.grabbingController])
        ~> (~microphone.isGrabbed /\ microphone.position = "spawn")

\* C23: no dead-end state. In every state in which nothing is pending (no
\* request, no timer, no continuation) and that lies after profile setup, some
\* pointer input (a mouse click, or a frame in which a tracked controller's
\* trigger went down) leaves the state or starts a request; in particular in
\* playing-song the Stop and the Back button are among the buttons the hit test
\* sees, and in error a Retry or Dismiss control is.
C23_NoDeadEnd ==
    LET visible == ButtonsFrom(Cur, 1, TRUE)
        ops == {visible[i].op : i \in DOMAIN visible}
        leaves(t) == t.currentState # currentState \/ t.pending # EmptyBag
        byMouse == \E dist \in Pointing, failAt \in LoadRoomOutcomes :
                      leaves(onMouseClick(Cur, dist, failAt))
        byController ==
            /\ xrSession
            /\ \E src \in {inputSources[i] : i \in DOMAIN inputSources},
                  dist \in Pointing, failAt \in LoadRoomOutcomes :
                  leaves(update([Cur EXCEPT !.gamepad[src] = TRUE], {src}, dist, failAt, {}))
    IN  (/\ Idle /\ pending = EmptyBag
         /\ currentState \in {"room-selection", "in-room", "song-search", "playing-song", "error"})
        => /\ byMouse \/ byController
           /\ currentState = "playing-song"
                 => {"handleStopSong", "handleBackToRoomSelection"} \subseteq ops
           /\ currentState = "error"
                 => {"handleErrorRetry", "handleErrorDismiss"} \cap ops # {}

\* C24: the states that follow profile setup (room-selection, loading-room,
\* in-room, song-search, playing-song) are entered only when the profile
\* service holds a profile, loaded from the cache or created successfully.
C24_RoomsOnlyWithProfile ==
    currentState \in {"room-selection", "loading-room", "in-room", "song-search",
                      "playing-song"}
        => cachedProfile # NoPlayer

\* C25: between transitions (no handler continuation queued, no request or
\* timer in flight) the error overlay is visible if and only if the state is
\* error.
C25_ErrorOverlayIffErrorState ==
    (Idle /\ pending = EmptyBag) => (errorVisible <=> currentState = "error")

\* C26: the buttons the hit test takes from the song-search panel are the
\* search input, Stop and Back plus the song buttons, of which there are at
\* most maxVisibleSongs, no two with the same id: the buttons of a replaced
\* song list are no longer among them.
C26_SongButtonsAreTheDisplayedSongs ==
    LET list == buttons["song-search"]
        isSong(b) == b.op = "handleSongSelect"
        songButtonsOfPanel == SelectSeq(list, isSong)
        controls == SelectSeq(list, LAMBDA b : ~isSong(b))
    IN  /\ controls = ConstructedButtons["song-search"]
        /\ Len(songButtonsOfPanel) <= maxVisibleSongs
        /\ \A i, j \in 1..Len(songButtonsOfPanel) : songButtonsOfPanel[i].id = songButtonsOfPanel[j].id => i = j

\* C27: after a trigger release no button remains flagged active: a frame
\* that processes the release of a controller's trigger (its recorded trigger
\* state goes from pressed to released) leaves no button active, whatever the
\* pointer did between press and release.
C27_ReleaseClearsActive ==
    [][(/\ calls' # <<>> /\ calls'[1].call = "update"
        /\ \E src \in Sources : triggerStates[src] /\ ~triggerStates'[src])
       => isActive' = {}]_vars

\* C28: whenever the keyboard panel is visible the keyboard target is set, so
\* that a key press is routed to the field the keyboard was opened for.
C28_VisibleKeyboardHasTarget ==
    panels["keyboard"] => currentKeyboardTarget # None

\* C30: when loadCachedProfile has returned, a profile identifier is in local
\* storage if and only if the call returned a profile.
C30_StoredIdIffProfileReturned ==
    (calls # <<>> /\ calls[1].call = "loadCachedProfile.returned") =>
        (storedProfileId # NoId <=> calls[1].key = "found")

====
